---- MODULE Spec2Model ----
(***************************************************************************)
(* Model of tasmota/sensor.go: the Tasmota SENSOR message pipeline         *)
(* (topic filter, YAML payload decoder, gauge mapper, ingestion loop).     *)
(*                                                                         *)
(* Strings are sequences of tokens, so that prefixes ("PM"), suffixes      *)
(* ("Unit") and the "/" delimiter can be inspected: "PM10Unit" is          *)
(* <<"PM", "10", "Unit">>, "dev1/tele/SENSOR" is                           *)
(* <<"dev1", "/", "tele", "/", "SENSOR">>.                                 *)
(* A float64 is an integer count of halves: 1.5 is 3, float64(3) is 6.     *)
(***************************************************************************)
EXTENDS Integers, Sequences, FiniteSets, TLC

VARIABLES
    yamlIn,     \* decoder specification: the payload handed to yaml.Unmarshal
    decoded,    \* decoder specification: the result of yaml.Unmarshal
    state,      \* collector(): "Running" | "Stopped" | "Panicked"
    closed,     \* collector.channel has been closed
    blocked,    \* a publisher is blocked sending on the unbuffered channel
    tmp,        \* collector(): the value last received from the channel
    sensor,     \* collector(): the tasmotaSensor last decoded
    sensors,    \* collector.sensors: series key -> gauge vector
    calls,      \* the Set calls of the last updateState, in order
    received,   \* number of values received from the channel
    decodes     \* number of yaml.Unmarshal calls made by collector()

vars == <<yamlIn, decoded, state, closed, blocked, tmp, sensor, sensors,
          calls, received, decodes>>

(***************************************************************************)
(* Bounds                                                                  *)
(***************************************************************************)
MaxFields == 3
MaxReadings == 3
MaxMsgs == 2
MaxTopicLen == 5

(***************************************************************************)
(* Constants of sensor.go                                                  *)
(***************************************************************************)
Temperature == <<"Temperature">>
Pressure == <<"Pressure">>
Humidity == <<"Humidity">>
PM10 == <<"PM", "10">>
PM2 == <<"PM", "2.5">>
Illuminance == <<"Illuminance">>

sensor_names == << <<"SI7021">>, <<"SDS0X1">>, <<"BH1750">>, <<"BMP280">> >>
sensor_types == <<Temperature, Pressure, Humidity, PM10, PM2, Illuminance>>

Range(s) == {s[i] : i \in 1..Len(s)}

\* strings.HasPrefix(s, p)
HasPrefix(s, p) == Len(s) >= Len(p) /\ SubSeq(s, 1, Len(p)) = p

\* unit_fields.MatchString(k), unit_fields = regexp "Unit$"
unit_fields(k) == Len(k) >= 1 /\ k[Len(k)] = "Unit"

(***************************************************************************)
(* YAML documents (the payload bytes, parsed) and the Go values yaml.v3    *)
(* decodes them to.  A node is [kind, val, ent]; a Go value is             *)
(* [type, val, ent]; ent maps the keys of a mapping to its members.        *)
(* A mapping key is [tag, name]: tag "str" for a string key, "int" for an  *)
(* integer key such as 1.                                                  *)
(***************************************************************************)
NoEnt == [k \in {} |-> 0]
StrKey(name) == [tag |-> "str", name |-> name]
IntKey == [tag |-> "int", name |-> <<"1">>]

Scalar(kind, val) == [kind |-> kind, val |-> val, ent |-> NoEnt]
MapNode(ent) == [kind |-> "map", val |-> 0, ent |-> ent]
BadDoc == Scalar("bad", 0)       \* bytes that are not YAML at all
SeqNode == Scalar("seq", 0)      \* a list
NullNode == Scalar("null", 0)    \* null, or the empty document

StringMap == "map[string]interface {}"
GeneralMap == "map[interface {}]interface {}"

\* yaml.v3 isStringMap: every key of the mapping is a string
isStringMap(n) == \A k \in DOMAIN n.ent : k.tag = "str"

\* yaml.v3 decoding a node into an interface{}: integers that fit become int,
\* larger ones uint64, floats float64; a mapping becomes map[string]interface{}
\* when all its keys are strings and map[interface{}]interface{} otherwise.
RECURSIVE yamlValue(_)
yamlValue(n) ==
    CASE n.kind = "int" -> [type |-> "int", val |-> n.val, ent |-> NoEnt]
      [] n.kind = "bigint" -> [type |-> "uint64", val |-> n.val, ent |-> NoEnt]
      [] n.kind = "float" -> [type |-> "float64", val |-> n.val, ent |-> NoEnt]
      [] n.kind = "str" -> [type |-> "string", val |-> 0, ent |-> NoEnt]
      [] n.kind = "bool" -> [type |-> "bool", val |-> 0, ent |-> NoEnt]
      [] n.kind = "null" -> [type |-> "nil", val |-> 0, ent |-> NoEnt]
      [] n.kind = "seq" -> [type |-> "[]interface {}", val |-> 0, ent |-> NoEnt]
      [] n.kind = "map" ->
           [type |-> IF isStringMap(n) THEN StringMap ELSE GeneralMap,
            val |-> 0,
            ent |-> [k \in DOMAIN n.ent |-> yamlValue(n.ent[k])]]

(***************************************************************************)
(* The decoder                                                             *)
(***************************************************************************)
NilReading == [Type |-> <<>>, SensorName |-> <<>>, Value |-> 0]
ReadoutError == [err |-> TRUE, value |-> NilReading]

\* getSingleReadout falling back to the unit-suffixed field of the type
getSingleReadout_unit(sensorName, sensorType, input) ==
    IF input.type # GeneralMap THEN ReadoutError
    ELSE LET k == IF StrKey(sensorType) \in DOMAIN input.ent
                  THEN StrKey(sensorType)
                  ELSE StrKey(sensorType \o <<"Unit">>) IN
         IF k \notin DOMAIN input.ent THEN ReadoutError
         ELSE LET interfaceValue == input.ent[k] IN
              [err |-> FALSE,
               value |-> [Type |-> sensorType, SensorName |-> sensorName,
                          Value |-> CASE interfaceValue.type = "float64" ->
                                           interfaceValue.val
                                      [] interfaceValue.type = "int" ->
                                           2 * interfaceValue.val
                                      [] OTHER -> 0]]

\* getSingleReadout: the assertion to map[interface{}]interface{}, the lookup
\* of string(sensorType), and the type switch, which has no default branch:
\* value keeps its zero value for any type other than float64 and int.
getSingleReadout(sensorName, sensorType, input) ==
    IF input.type # GeneralMap THEN ReadoutError
    ELSE IF StrKey(sensorType) \notin DOMAIN input.ent THEN ReadoutError
    ELSE LET interfaceValue == input.ent[StrKey(sensorType)]
             value == CASE interfaceValue.type = "float64" -> interfaceValue.val
                        [] interfaceValue.type = "int" -> 2 * interfaceValue.val
                        [] OTHER -> 0
         IN [err |-> FALSE,
             value |-> [Type |-> sensorType, SensorName |-> sensorName,
                        Value |-> value]]

\* the inner loop of getSensorData, over sensor_types from index t
RECURSIVE typesLoop(_, _, _)
typesLoop(name, input, t) ==
    IF t > Len(sensor_types) THEN <<>>
    ELSE LET r == getSingleReadout(name, sensor_types[t], input) IN
         (IF r.err THEN <<>> ELSE <<r.value>>) \o typesLoop(name, input, t + 1)

\* the outer loop of getSensorData, over sensor_names from index i
RECURSIVE namesLoop(_, _)
namesLoop(data, i) ==
    IF i > Len(sensor_names) THEN <<>>
    ELSE (IF StrKey(sensor_names[i]) \in DOMAIN data
          THEN typesLoop(sensor_names[i], data[StrKey(sensor_names[i])], 1)
          ELSE <<>>) \o namesLoop(data, i + 1)

getSensorData(data) == namesLoop(data, 1)

\* getKeys: the keys of a map[string]interface{} split into unit fields and
\* the rest (as sets: the order is Go's map iteration order)
getKeys(input) ==
    [keys |-> {k \in DOMAIN input : ~unit_fields(k.name)},
     units |-> {k \in DOMAIN input : unit_fields(k.name)}]

\* yaml.Unmarshal(payload, &sensor) through tasmotaSensor.UnmarshalYAML:
\* unmarshal(&tmp) fails unless the document is a mapping; a null or empty
\* document is no error and leaves sensor untouched.
UnmarshalYAML(payload) ==
    IF payload.kind = "null" THEN [err |-> FALSE, Sensors |-> <<>>]
    ELSE IF payload.kind # "map" THEN [err |-> TRUE, Sensors |-> <<>>]
    ELSE [err |-> FALSE, Sensors |-> getSensorData(yamlValue(payload).ent)]

(***************************************************************************)
(* The gauges.  A gauge vector is [labels, vals]: its label names and the  *)
(* value set for each tuple of label values.                               *)
(***************************************************************************)
GaugeVec(labels) == [labels |-> labels, vals |-> NoEnt]

\* the constructor without the shared "pm" vector
newPrometheusTasmotaSensorCollector_nopm ==
    [k \in {t \in Range(sensor_types) : ~HasPrefix(t, <<"PM">>)} |->
        GaugeVec(<<"tasmota_instance", "sensor_name">>)]

\* newPrometheusTasmotaSensorCollector: collector.sensors as constructed, one
\* vector per SensorType that does not start with "PM", and the shared "pm"
newPrometheusTasmotaSensorCollector ==
    [k \in {t \in Range(sensor_types) : ~HasPrefix(t, <<"PM">>)} \cup {<<"pm">>}
       |-> IF k = <<"pm">>
           THEN GaugeVec(<<"tasmota_instance", "sensor_name", "resolution">>)
           ELSE GaugeVec(<<"tasmota_instance", "sensor_name">>)]

Extend(f, k, node) ==
    [x \in DOMAIN f \cup {k} |-> IF x = k THEN node ELSE f[x]]

\* one Set call on a vector: s is [sensors, calls, panic].  Looking up a key
\* that was not registered yields a nil vector, and WithLabelValues panics on
\* it, as it does on a wrong number of label values.
SetGauge(s, key, lvs, value) ==
    IF key \notin DOMAIN s.sensors THEN [s EXCEPT !.panic = TRUE]
    ELSE IF Len(lvs) # Len(s.sensors[key].labels) THEN [s EXCEPT !.panic = TRUE]
    ELSE [sensors |-> [s.sensors EXCEPT ![key].vals = Extend(@, lvs, value)],
          calls |-> Append(s.calls,
                           [series |-> key, labels |-> lvs, value |-> value]),
          panic |-> FALSE]

\* the loop body with Add in place of Set
applyReading_add(s, DeviceName, data) ==
    LET key == IF ~HasPrefix(data.Type, <<"PM">>) THEN data.Type ELSE <<"pm">>
        lvs == IF ~HasPrefix(data.Type, <<"PM">>)
               THEN <<DeviceName, data.SensorName>>
               ELSE <<DeviceName, data.SensorName, data.Type>>
        old == IF key \in DOMAIN s.sensors /\ lvs \in DOMAIN s.sensors[key].vals
               THEN s.sensors[key].vals[lvs] ELSE 0
    IN SetGauge(s, key, lvs, old + data.Value)

\* the loop body with the resolution label fixed to "PM"
applyReading_res(s, DeviceName, data) ==
    IF ~HasPrefix(data.Type, <<"PM">>)
    THEN SetGauge(s, data.Type, <<DeviceName, data.SensorName>>, data.Value)
    ELSE SetGauge(s, <<"pm">>, <<DeviceName, data.SensorName, <<"PM">>>>,
                  data.Value)

\* the body of the loop of updateState, for one element of sensor.Sensors
applyReading(s, DeviceName, data) ==
    IF ~HasPrefix(data.Type, <<"PM">>)
    THEN SetGauge(s, data.Type, <<DeviceName, data.SensorName>>, data.Value)
    ELSE SetGauge(s, <<"pm">>, <<DeviceName, data.SensorName, data.Type>>,
                  data.Value)

\* the loop of updateState from index i; a panic ends it
RECURSIVE updateLoop(_, _, _)
updateLoop(s, report, i) ==
    IF i > Len(report.Sensors) \/ s.panic THEN s
    ELSE updateLoop(applyReading(s, report.DeviceName, report.Sensors[i]),
                    report, i + 1)

\* collector.updateState(sensor)
updateState(gauges, report) ==
    updateLoop([sensors |-> gauges, calls |-> <<>>, panic |-> FALSE], report, 1)

(***************************************************************************)
(* Decoder specification: a payload is composed leaf by leaf, up to        *)
(* MaxFields leaves in all, and then handed to yaml.Unmarshal.             *)
(***************************************************************************)
TopKeys == <<StrKey(<<"SI7021">>), StrKey(<<"SDS0X1">>), StrKey(<<"Time">>)>>
FieldKeys == {StrKey(Temperature), StrKey(PM10), StrKey(PM10 \o <<"Unit">>),
              IntKey}
FieldValues == {Scalar("int", 3), Scalar("float", 3), Scalar("bigint", 9),
                Scalar("str", 0), NullNode}
PlainEntries == {Scalar("int", 3), SeqNode, NullNode}
TopDocuments == {BadDoc, SeqNode, Scalar("str", 0), NullNode, MapNode(NoEnt)}

\* the leaves of a node: its fields, an empty mapping counting as one
NodeLeaves(n) ==
    IF n.kind = "map" /\ DOMAIN n.ent # {} THEN Cardinality(DOMAIN n.ent) ELSE 1

RECURSIVE LeavesFrom(_, _)
LeavesFrom(ent, i) ==
    IF i > Len(TopKeys) THEN 0
    ELSE (IF TopKeys[i] \in DOMAIN ent THEN NodeLeaves(ent[TopKeys[i]]) ELSE 0)
         + LeavesFrom(ent, i + 1)

Leaves(doc) == LeavesFrom(doc.ent, 1)

NotDecoded == [done |-> FALSE, err |-> FALSE, Sensors |-> <<>>]
NoMsg == [topic |-> <<>>, payload |-> NullNode, device |-> <<>>, nil |-> TRUE]
NoSensor == [DeviceName |-> <<>>, Sensors |-> <<>>]

InitDecode ==
    /\ yamlIn \in TopDocuments
    /\ decoded = NotDecoded
    /\ state = "Running"
    /\ closed = FALSE
    /\ blocked = FALSE
    /\ tmp = NoMsg
    /\ sensor = NoSensor
    /\ sensors = newPrometheusTasmotaSensorCollector
    /\ calls = <<>>
    /\ received = 0
    /\ decodes = 0

\* the payload gains a top-level entry: a scalar, a list, null or {}
AddEntry ==
    /\ ~decoded.done
    /\ yamlIn.kind = "map"
    /\ Leaves(yamlIn) < MaxFields
    /\ \E k \in Range(TopKeys) \ DOMAIN yamlIn.ent :
         \E node \in PlainEntries \cup {MapNode(NoEnt)} :
            yamlIn' = MapNode(Extend(yamlIn.ent, k, node))
    /\ UNCHANGED <<decoded, state, closed, blocked, tmp, sensor, sensors,
                   calls, received, decodes>>

\* a nested mapping of the payload gains a field
AddField ==
    /\ ~decoded.done
    /\ yamlIn.kind = "map"
    /\ \E k \in DOMAIN yamlIn.ent :
         /\ yamlIn.ent[k].kind = "map"
         /\ \E fk \in FieldKeys \ DOMAIN yamlIn.ent[k].ent :
              \E v \in FieldValues :
                 LET doc == MapNode(Extend(yamlIn.ent, k,
                               MapNode(Extend(yamlIn.ent[k].ent, fk, v))))
                 IN /\ Leaves(doc) <= MaxFields
                    /\ yamlIn' = doc
    /\ UNCHANGED <<decoded, state, closed, blocked, tmp, sensor, sensors,
                   calls, received, decodes>>

\* yaml.Unmarshal([]byte(payload), &sensor)
Unmarshal ==
    /\ ~decoded.done
    /\ decoded' = [done |-> TRUE, err |-> UnmarshalYAML(yamlIn).err,
                   Sensors |-> UnmarshalYAML(yamlIn).Sensors]
    /\ UNCHANGED <<yamlIn, state, closed, blocked, tmp, sensor, sensors,
                   calls, received, decodes>>

NextDecode == AddEntry \/ AddField \/ Unmarshal

SpecDecode == InitDecode /\ [][NextDecode]_vars

(***************************************************************************)
(* Claims about the decoder (SpecDecode)                                   *)
(***************************************************************************)
Names == Range(sensor_names)
Types == Range(sensor_types)

Numeric(n) == n.kind \in {"int", "float", "bigint"}
\* the number a numeric node holds, as a float64
Coerced(n) == IF n.kind = "float" THEN n.val ELSE 2 * n.val

HasEntry(doc, h) == doc.kind = "map" /\ StrKey(h) \in DOMAIN doc.ent
Entry(doc, h) == doc.ent[StrKey(h)]
\* the payload holds a field named t in a nested mapping under h
Present(doc, h, t) ==
    /\ HasEntry(doc, h)
    /\ Entry(doc, h).kind = "map"
    /\ StrKey(t) \in DOMAIN Entry(doc, h).ent
Field(doc, h, t) == Entry(doc, h).ent[StrKey(t)]

ReadingsOf(rs, h, t) ==
    {i \in 1..Len(rs) : rs[i].SensorName = h /\ rs[i].Type = t}

RemoveField(doc, k, fk) ==
    MapNode([x \in DOMAIN doc.ent |->
               IF x = k
               THEN MapNode([y \in DOMAIN doc.ent[k].ent \ {fk} |->
                               doc.ent[k].ent[y]])
               ELSE doc.ent[x]])

RECURSIVE Without(_, _, _)
Without(rs, h, t) ==
    IF rs = <<>> THEN <<>>
    ELSE (IF Head(rs).SensorName = h /\ Head(rs).Type = t
          THEN <<>> ELSE <<Head(rs)>>) \o Without(Tail(rs), h, t)

C1_Pre ==
    /\ yamlIn.kind = "map"
    /\ \A h \in Names : HasEntry(yamlIn, h) =>
          /\ Entry(yamlIn, h).kind = "map"
          /\ \A t \in Types : Present(yamlIn, h, t) =>
                Numeric(Field(yamlIn, h, t))

\* C1: a payload that is a mapping whose whitelisted hardware entries are
\* mappings with numeric canonical fields decodes without error to exactly one
\* Reading per (hardware, SensorType) pair present, its value the number as a
\* float64, and to no Reading for a pair that is absent.
C1_OneReadingPerPair ==
    (decoded.done /\ C1_Pre) =>
       /\ ~decoded.err
       /\ \A h \in Names : \A t \in Types :
            IF Present(yamlIn, h, t)
            THEN /\ Cardinality(ReadingsOf(decoded.Sensors, h, t)) = 1
                 /\ \A i \in ReadingsOf(decoded.Sensors, h, t) :
                       decoded.Sensors[i].Value = Coerced(Field(yamlIn, h, t))
            ELSE ReadingsOf(decoded.Sensors, h, t) = {}

\* C2: a canonical field that is present but not numeric yields no Reading for
\* its (hardware, SensorType) pair, the decode does not fail, and the Readings
\* of the other pairs are those of the payload without that field.
C2_NonNumericSkipped ==
    (decoded.done /\ yamlIn.kind = "map") =>
       \A h \in Names : \A t \in Types :
          (Present(yamlIn, h, t) /\ ~Numeric(Field(yamlIn, h, t))) =>
             /\ ReadingsOf(decoded.Sensors, h, t) = {}
             /\ ~decoded.err
             /\ Without(decoded.Sensors, h, t) =
                  UnmarshalYAML(RemoveField(yamlIn, StrKey(h), StrKey(t))).Sensors

\* C7: a whitelisted hardware name whose value is not a mapping yields no
\* Reading, the decode does not fail, and every numeric canonical field of
\* every other whitelisted hardware entry still yields its Reading.
C7_NonMapEntrySkipped ==
    (decoded.done /\ yamlIn.kind = "map") =>
       \A h \in Names :
          (HasEntry(yamlIn, h) /\ Entry(yamlIn, h).kind # "map") =>
             /\ \A i \in 1..Len(decoded.Sensors) :
                   decoded.Sensors[i].SensorName # h
             /\ ~decoded.err
             /\ \A g \in Names \ {h} : \A t \in Types :
                   (Present(yamlIn, g, t) /\ Numeric(Field(yamlIn, g, t))) =>
                      \E i \in ReadingsOf(decoded.Sensors, g, t) :
                         decoded.Sensors[i].Value = Coerced(Field(yamlIn, g, t))

\* C8: a field whose name ends in "Unit" never yields a Reading, whatever its
\* value, and the Readings decoded are those of the payload without the field.
C8_UnitFieldsInert ==
    (decoded.done /\ yamlIn.kind = "map") =>
       /\ \A i \in 1..Len(decoded.Sensors) : ~unit_fields(decoded.Sensors[i].Type)
       /\ \A k \in DOMAIN yamlIn.ent :
            yamlIn.ent[k].kind = "map" =>
               \A u \in getKeys(yamlIn.ent[k].ent).units :
                  /\ UnmarshalYAML(RemoveField(yamlIn, k, u)).Sensors
                       = decoded.Sensors
                  /\ UnmarshalYAML(RemoveField(yamlIn, k, u)).err = decoded.err

\* a decoded payload with a numeric PM10Unit field next to a PM10 field that
\* yielded a Reading
C8_Witness ==
    /\ decoded.done
    /\ Present(yamlIn, <<"SDS0X1">>, PM10 \o <<"Unit">>)
    /\ Numeric(Field(yamlIn, <<"SDS0X1">>, PM10 \o <<"Unit">>))
    /\ ReadingsOf(decoded.Sensors, <<"SDS0X1">>, PM10) # {}

(***************************************************************************)
(* Mapper specification: updateState applied to reports of canonical       *)
(* readings, at most MaxReadings readings in all.                          *)
(***************************************************************************)
Devices == {<<"dev1">>, <<"dev2">>}
ApplyReadings ==
    [Type : {Temperature, Humidity, PM10, PM2},
     SensorName : {<<"SI7021">>, <<"SDS0X1">>},
     Value : {1, 2}]

RECURSIVE ReportsOf(_)
ReportsOf(n) ==
    IF n = 0 THEN {<<>>}
    ELSE LET shorter == ReportsOf(n - 1) IN
         shorter \cup {Append(r, d) : r \in {x \in shorter : Len(x) = n - 1},
                                      d \in ApplyReadings}

InitApply ==
    /\ yamlIn = NullNode
    /\ decoded = NotDecoded
    /\ state = "Running"
    /\ closed = FALSE
    /\ blocked = FALSE
    /\ tmp = NoMsg
    /\ sensor = NoSensor
    /\ sensors = newPrometheusTasmotaSensorCollector
    /\ calls = <<>>
    /\ received = 0
    /\ decodes = 0

\* collector.updateState(report) for a report of received' - received readings
Apply ==
    /\ state = "Running"
    /\ \E dev \in Devices : \E rs \in ReportsOf(MaxReadings - received) :
         LET report == [DeviceName |-> dev, Sensors |-> rs]
             s == updateState(sensors, report)
         IN /\ sensor' = report
            /\ sensors' = s.sensors
            /\ calls' = s.calls
            /\ state' = IF s.panic THEN "Panicked" ELSE "Running"
            /\ received' = received + Len(rs)
    /\ UNCHANGED <<yamlIn, decoded, closed, blocked, tmp, decodes>>

NextApply == Apply

SpecApply == InitApply /\ [][NextApply]_vars

IsPM(t) == t \in {PM10, PM2}

\* the Set call the mapper owes a reading of a report
CallFor(report, i) ==
    LET d == report.Sensors[i] IN
    IF IsPM(d.Type)
    THEN [series |-> <<"pm">>,
          labels |-> <<report.DeviceName, d.SensorName, d.Type>>,
          value |-> d.Value]
    ELSE [series |-> d.Type,
          labels |-> <<report.DeviceName, d.SensorName>>,
          value |-> d.Value]

\* C3: updateState makes one Set call per Reading, in the order of the report:
\* PM10 and PM2.5 on "pm" with labels (device, sensorName, type), any other
\* type on the series of its name with labels (device, sensorName), and the
\* series holds the value of the last call made on each label tuple.
C3_OneCallPerReading ==
    sensor # NoSensor =>
       /\ state = "Running"
       /\ Len(calls) = Len(sensor.Sensors)
       /\ \A i \in 1..Len(calls) :
            /\ calls[i] = CallFor(sensor, i)
            /\ calls[i].series \in DOMAIN sensors
            /\ (\A j \in (i + 1)..Len(calls) :
                   ~(calls[j].series = calls[i].series
                     /\ calls[j].labels = calls[i].labels))
               => /\ calls[i].labels \in DOMAIN sensors[calls[i].series].vals
                  /\ sensors[calls[i].series].vals[calls[i].labels]
                       = calls[i].value

\* a report with a PM reading before a non-PM reading has been applied
C3_Witness ==
    /\ Len(calls) = 2
    /\ calls[1].series = <<"pm">>
    /\ calls[1].labels[3] = PM2
    /\ calls[2].series = Temperature

\* C9: applying the report just applied once more leaves every series and
\* label tuple of the gauges with the value it has.
C9_Idempotent ==
    sensor # NoSensor =>
       /\ updateState(sensors, sensor).sensors = sensors
       /\ ~updateState(sensors, sensor).panic

\* a report that writes one label tuple twice, with different values, has been
\* applied over gauges that already held values
C9_Witness ==
    /\ received > Len(sensor.Sensors)
    /\ Len(sensor.Sensors) = 2
    /\ sensor.Sensors[1].Type = sensor.Sensors[2].Type
    /\ sensor.Sensors[1].SensorName = sensor.Sensors[2].SensorName
    /\ sensor.Sensors[1].Value # sensor.Sensors[2].Value

(***************************************************************************)
(* The topic filter                                                        *)
(***************************************************************************)
\* strings.Split(topic, "/"): the segments between the "/" tokens
RECURSIVE Split(_)
Split(topic) ==
    IF topic = <<>> THEN << <<>> >>
    ELSE LET rest == Split(Tail(topic)) IN
         IF Head(topic) = "/" THEN << <<>> >> \o rest
         ELSE << <<Head(topic)>> \o Head(rest) >> \o Tail(rest)

\* the filter accepting topics of three segments or more
isTasmotaSensorMessage_ge(topic) ==
    LET split == Split(topic) IN Len(split) >= 3 /\ split[3] = <<"SENSOR">>

\* isTasmotaSensorMessage(topic)
isTasmotaSensorMessage(topic) ==
    LET split == Split(topic) IN Len(split) = 3 /\ split[3] = <<"SENSOR">>

\* receiveMessage(tmp, "sensor", isTasmotaSensorMessage): an error unless the
\* filter accepts the topic of the message
receiveMessage(m) == [err |-> ~isTasmotaSensorMessage(m.topic), message |-> m]

(***************************************************************************)
(* The ingestion loop.  s is [state, sensor, sensors, calls, decodes].     *)
(***************************************************************************)
\* receiveMessage failed, and the loop returns
afterReceiveError_return(s) == [s EXCEPT !.state = "Stopped"]

\* receiveMessage failed: continue
afterReceiveError(s) == s

\* yaml.Unmarshal failed, and the loop continues
afterUnmarshalError_continue(s) == s

\* yaml.Unmarshal failed: fatal(...) and return
afterUnmarshalError(s) == [s EXCEPT !.state = "Stopped"]

\* the body of the loop of collector() for one value of the channel
collectorBody(s, m) ==
    IF receiveMessage(m).err THEN afterReceiveError(s)
    ELSE LET u == UnmarshalYAML(m.payload)
             d == [s EXCEPT !.decodes = @ + 1]
         IN IF u.err THEN afterUnmarshalError(d)
            ELSE LET report == [DeviceName |-> m.device, Sensors |-> u.Sensors]
                     r == updateState(d.sensors, report)
                 IN [state |-> IF r.panic THEN "Panicked" ELSE d.state,
                     sensor |-> report,
                     sensors |-> r.sensors,
                     calls |-> r.calls,
                     decodes |-> d.decodes]

TopicTokens == {"/", "SENSOR", "tele"}

RECURSIVE TopicsOf(_)
TopicsOf(n) ==
    IF n = 0 THEN {<<>>}
    ELSE LET shorter == TopicsOf(n - 1) IN
         shorter \cup {Append(t, c) : t \in {x \in shorter : Len(x) = n - 1},
                                      c \in TopicTokens}

Topics == TopicsOf(MaxTopicLen)

GeneralEntry(h, t, v) ==
    MapNode(StrKey(h) :> MapNode(StrKey(t) :> v @@ IntKey :> Scalar("str", 0)))

LoopPayloads ==
    {BadDoc, SeqNode, NullNode, MapNode(NoEnt),
     MapNode(StrKey(<<"Time">>) :> Scalar("str", 0)),
     MapNode(StrKey(<<"SI7021">>) :> Scalar("int", 3)),
     MapNode(StrKey(<<"SI7021">>) :>
                MapNode(StrKey(Temperature) :> Scalar("float", 3))),
     GeneralEntry(<<"SI7021">>, Temperature, Scalar("float", 3)),
     GeneralEntry(<<"SI7021">>, Temperature, Scalar("str", 0)),
     GeneralEntry(<<"SDS0X1">>, PM10, Scalar("int", 3)),
     GeneralEntry(<<"SDS0X1">>, PM2, Scalar("float", 5))}

Messages ==
    [topic : Topics, payload : LoopPayloads, device : Devices, nil : {FALSE}]

Init ==
    /\ yamlIn = NullNode
    /\ decoded = NotDecoded
    /\ state = "Running"
    /\ closed = FALSE
    /\ blocked = FALSE
    /\ tmp = NoMsg
    /\ sensor = NoSensor
    /\ sensors = newPrometheusTasmotaSensorCollector
    /\ calls = <<>>
    /\ received = 0
    /\ decodes = 0

\* "for tmp := range collector.channel": a publisher's send meets the receive
collectorReceive ==
    /\ state = "Running"
    /\ ~closed
    /\ tmp = NoMsg
    /\ received < MaxMsgs
    /\ \E m \in Messages : tmp' = m
    /\ received' = received + 1
    /\ UNCHANGED <<yamlIn, decoded, state, closed, blocked, sensor, sensors,
                   calls, decodes>>

\* the body of the loop, for the value received; tmp goes out of scope
collector ==
    /\ state = "Running"
    /\ tmp # NoMsg
    /\ LET s == collectorBody([state |-> state, sensor |-> sensor,
                               sensors |-> sensors, calls |-> calls,
                               decodes |-> decodes], tmp)
       IN /\ state' = s.state
          /\ sensor' = s.sensor
          /\ sensors' = s.sensors
          /\ calls' = s.calls
          /\ decodes' = s.decodes
    /\ tmp' = NoMsg
    /\ UNCHANGED <<yamlIn, decoded, closed, blocked, received>>

\* the range loop ends when the channel is closed
collectorDone ==
    /\ state = "Running"
    /\ tmp = NoMsg
    /\ closed
    /\ state' = "Stopped"
    /\ UNCHANGED <<yamlIn, decoded, closed, blocked, tmp, sensor, sensors,
                   calls, received, decodes>>

\* close(collector.channel)
Close ==
    /\ ~closed
    /\ ~blocked
    /\ closed' = TRUE
    /\ UNCHANGED <<yamlIn, decoded, state, blocked, tmp, sensor, sensors,
                   calls, received, decodes>>

\* a publisher sends on the channel after the loop has ended: nothing
\* receives, and the send blocks
BlockedSend ==
    /\ state # "Running"
    /\ ~closed
    /\ ~blocked
    /\ blocked' = TRUE
    /\ UNCHANGED <<yamlIn, decoded, state, closed, tmp, sensor, sensors,
                   calls, received, decodes>>

Next == collectorReceive \/ collector \/ collectorDone \/ Close \/ BlockedSend

Spec == Init /\ [][Next]_vars

(***************************************************************************)
(* Claims about the ingestion loop (Spec)                                  *)
(***************************************************************************)
\* the topic has exactly three "/"-separated segments, the third "SENSOR"
RelevantTopic(topic) ==
    /\ Cardinality({i \in 1..Len(topic) : topic[i] = "/"}) = 2
    /\ Len(topic) >= 3
    /\ topic[Len(topic)] = "SENSOR"
    /\ topic[Len(topic) - 1] = "/"

\* the payload does not parse as a top-level mapping
Malformed(payload) == payload.kind \notin {"map", "null"}

Fresh == [k \in {Temperature, Pressure, Humidity, Illuminance, <<"pm">>} |->
            [labels |-> IF k = <<"pm">>
                        THEN <<"tasmota_instance", "sensor_name", "resolution">>
                        ELSE <<"tasmota_instance", "sensor_name">>,
             vals |-> NoEnt]]

\* C4: the loop leaves Running only when the channel is closed or when the
\* payload of a relevant message is malformed; after any other message it is
\* still Running.
C4_StopsOnlyOnCloseOrMalformed ==
    [][/\ (state = "Running" /\ state' # "Running") =>
             \/ closed /\ tmp = NoMsg /\ state' = "Stopped"
             \/ /\ tmp # NoMsg
                /\ RelevantTopic(tmp.topic)
                /\ Malformed(tmp.payload)
                /\ state' = "Stopped"
       /\ (state = "Running" /\ tmp # NoMsg /\ tmp' = NoMsg
           /\ ~(RelevantTopic(tmp.topic) /\ Malformed(tmp.payload))) =>
             state' = "Running"]_vars

\* the loop is Running after an irrelevant message and a relevant message
\* that decoded to no readings
C4_Witness ==
    /\ state = "Running"
    /\ tmp = NoMsg
    /\ received = 2
    /\ decodes = 1
    /\ sensor # NoSensor
    /\ sensor.Sensors = <<>>

\* C5: a relevant message with a malformed payload stops the loop without a
\* gauge mutation, and once the loop has stopped nothing is received or
\* decoded and no gauge changes.
C5_MalformedStopsForGood ==
    [][/\ (state = "Running" /\ tmp # NoMsg /\ tmp' = NoMsg
           /\ RelevantTopic(tmp.topic) /\ Malformed(tmp.payload)) =>
             (state' = "Stopped" /\ sensors' = sensors)
       /\ state = "Stopped" =>
             /\ state' = "Stopped"
             /\ sensors' = sensors
             /\ decodes' = decodes
             /\ received' = received
             /\ tmp' = tmp]_vars

\* the loop stopped on a malformed payload with a value in the gauges, and a
\* later send is blocked
C5_Witness ==
    /\ state = "Stopped"
    /\ ~closed
    /\ blocked
    /\ sensors[Temperature].vals # NoEnt

\* C6: a message is decoded if and only if its topic has exactly three
\* segments, the third "SENSOR"; for any other message nothing is decoded, no
\* gauge changes and the loop goes on.
C6_RelevantIffThreeSegments ==
    [][(state = "Running" /\ tmp # NoMsg /\ tmp' = NoMsg) =>
          /\ (decodes' = decodes + 1) <=> RelevantTopic(tmp.topic)
          /\ ~RelevantTopic(tmp.topic) =>
                /\ decodes' = decodes
                /\ sensors' = sensors
                /\ state' = "Running"]_vars

\* a message was dropped by the filter, before or after one that set a gauge,
\* and the loop is Running
C6_Witness ==
    /\ state = "Running"
    /\ tmp = NoMsg
    /\ received = 2
    /\ decodes = 1
    /\ sensors[<<"pm">>].vals # NoEnt

\* C10: the gauges are the ones registered at construction, every Reading
\* decoded has a canonical SensorType and a whitelisted sensorName, and every
\* Set call is made on a registered series: the loop never panics.
C10_OnlyRegisteredSeries ==
    /\ state # "Panicked"
    /\ DOMAIN sensors = DOMAIN Fresh
    /\ \A i \in 1..Len(sensor.Sensors) :
          /\ sensor.Sensors[i].Type \in Types
          /\ sensor.Sensors[i].SensorName \in Names
    /\ \A i \in 1..Len(calls) : calls[i].series \in DOMAIN Fresh

\* both a PM reading and a non-PM reading have been written
C10_Witness ==
    /\ state = "Running"
    /\ sensors[<<"pm">>].vals # NoEnt
    /\ sensors[Temperature].vals # NoEnt

====
